---------------------------- MODULE Spec2Model ----------------------------
(***************************************************************************)
(* SteelConnect bulk import / bulk delete.                                 *)
(*                                                                         *)
(* Two command line tools talk to the SteelConnect Manager REST API:       *)
(*   src/steelconnect_bulk_import.py              (sites, uplinks, zones)  *)
(*   src/delete_sites/steelconnect_bulk_delete.py (delete all sites but    *)
(*                                                 DC-Sydney)              *)
(* Each tool is one sequential process.  A step of the model is one remote *)
(* call (with the code that runs up to the next call) or one answer of the *)
(* operator at a prompt.  Every remote call is appended to the history     *)
(* variable calls.                                                         *)
(*                                                                         *)
(* Python values: texts that the code lower-cases, strips, indexes or      *)
(* searches (ip fields, prompt replies, WAN ids) and all ids are sequences *)
(* of one-character strings; names that are only compared are strings.     *)
(***************************************************************************)
EXTENDS Integers, Sequences, FiniteSets, TLC

VARIABLES
    tool,          \* "import" | "delete" | "pure": which program runs
    pc,            \* position of the process in its code
    halt,          \* how the process ended: "none" while running
    exit_code,     \* -1 while running, else the exit status of the process
    organization,  \* the organization argument of the command line
    org_id,        \* result of find_org
    sites_csv,     \* import: rows read by open_csv
    row,           \* import: index of the row being processed (for site in sites)
    wans,          \* import: the Wan namedtuple of find_wans
    result,        \* import: add_sites' result list (ids of created sites)
    site_id,       \* import: add_sites' site_id
    zones,         \* import: add_sites' zones
    internet_uplink_id,     \* import: add_sites' internet_uplink_id
    update_network_wan_id,  \* import: add_sites' update_network_wan_id
    remote_sites,  \* delete: the sites the controller holds (the items of GET sites)
    delete_sites,  \* delete: main's delete_sites list
    prompt,        \* delete: 0 before remove_sites, 1 / 2 = the yes_or_no call in progress
    depth,         \* delete: recursion depth of the yes_or_no call in progress
    answers,       \* delete: history of the operator's replies, [prompt, reply]
    idx,           \* delete: index into delete_sites of delete_site's loop
    calls,         \* history of remote calls
    faults,        \* number of remote responses so far that were not the nominal one
    arg,           \* pure: the input of the function under study
    ret            \* pure: its result

vars == <<tool, pc, halt, exit_code, organization, org_id, sites_csv, row, wans,
          result, site_id, zones, internet_uplink_id, update_network_wan_id,
          remote_sites, delete_sites, prompt, depth, answers, idx, calls, faults,
          arg, ret>>

importVars == <<sites_csv, row, wans, result, site_id, zones,
                internet_uplink_id, update_network_wan_id>>
deleteVars == <<remote_sites, delete_sites, prompt, depth, answers, idx>>
pureVars == <<arg, ret>>

-----------------------------------------------------------------------------
(* Bounds of the model *)

\* rows in the CSV file
MaxRows == 2
\* sites returned by GET sites (delete tool)
MaxSites == 3
\* replies the operator gives before the model stops asking
MaxAnswers == 3
\* length of a list handed to a function studied on its own
MaxLen == 3
\* remote responses per run other than the nominal one (HTTP 200 carrying the
\* usual WANs / the default zone / the Internet uplink)
MaxFaults == 1

-----------------------------------------------------------------------------
(* Python values *)

\* Python's None
None == <<"None">>
\* the int 1 that find_org returns when no organization matches
IntOne == <<"int:1">>

IsStr(v) == v # None /\ v # IntOne

\* truth value of a string or None in a condition
Truthy(v) == v # None /\ v # <<>>

\* a local variable that no assignment has reached
Unbound == <<"unbound">>

\* the four local variables of find_wans before its loop
NoWans == [internet |-> Unbound, routevpn |-> Unbound, wan_id |-> Unbound,
           wan_name |-> "unbound"]

RECURSIVE SeqToSet(_)
SeqToSet(s) == IF s = <<>> THEN {} ELSE {Head(s)} \cup SeqToSet(Tail(s))

\* all sequences over S of length 0..n
SeqsUpTo(S, n) == UNION {[1..k -> S] : k \in 0..n}

UpperChars == {"D", "H", "C", "P", "Y", "N", "X"}
LowerCharOf == [c \in UpperChars |->
                  CASE c = "D" -> "d" [] c = "H" -> "h" [] c = "C" -> "c"
                    [] c = "P" -> "p" [] c = "Y" -> "y" [] c = "N" -> "n"
                    [] c = "X" -> "x"]

\* str.lower()
Lower(s) == [i \in 1..Len(s) |-> IF s[i] \in UpperChars THEN LowerCharOf[s[i]] ELSE s[i]]

Whitespace == {" "}

RECURSIVE LStrip(_)
LStrip(s) == IF s # <<>> /\ Head(s) \in Whitespace THEN LStrip(Tail(s)) ELSE s

RECURSIVE RStrip(_)
RStrip(s) ==
    IF s # <<>> /\ s[Len(s)] \in Whitespace THEN RStrip(SubSeq(s, 1, Len(s) - 1)) ELSE s

\* str.strip()
Strip(s) == RStrip(LStrip(s))

\* a in b, for two strings
IsSubstring(a, b) ==
    \E k \in 0..(Len(b) - Len(a)) : SubSeq(b, k + 1, k + Len(a)) = a

-----------------------------------------------------------------------------
(* Controller client: get and send (the same code in both tools) *)

\* What the requests library hands back for one call: a response with a status
\* code, or an exception raised by the transport.  error_json tells whether the
\* body of an error response is JSON carrying error.message.
Resp(status, error_json) == [status |-> status, exc |-> "none", error_json |-> error_json]
Exc(name) == [status |-> 0, exc |-> name, error_json |-> FALSE]

OK200 == Resp(200, FALSE)

Responses ==
    {OK200, Resp(201, FALSE), Resp(404, TRUE), Resp(502, FALSE),
     Exc("ConnectionError"), Exc("Timeout")}

\* response.raise_for_status() raises HTTPError
RaisesHTTPError(r) == r.exc = "none" /\ r.status >= 400

\* a get that treats an HTTP error status the way send does
get_reports_http_error(r) ==
    IF r.exc # "none" THEN "exit"
    ELSE IF r.status = 200 \/ r.status >= 400 THEN "items"
    ELSE "exit"

\* get(url, auth): "items" = returns response.json()['items'], "exit" = sys.exit(1)
get(r) ==
    IF RaisesHTTPError(r) THEN "exit"
    ELSE IF r.exc = "ConnectionError" THEN "exit"
    ELSE IF r.exc # "none" THEN "exit"
    ELSE IF r.status = 200 THEN "items"
    ELSE "exit"

\* send(url, payload, auth, method): "return" = returns the response, "exit" =
\* sys.exit(1), "raise" = response.json()['error']['message'] raises inside the
\* HTTPError handler and nothing catches it
send(r) ==
    IF RaisesHTTPError(r) THEN (IF r.error_json THEN "return" ELSE "raise")
    ELSE IF r.exc # "none" THEN "exit"
    ELSE "return"

\* one entry of the history of remote calls: the request, the response and,
\* for a GET, the items of the response body
Call(verb, res, id, r, body, resp, items) ==
    [verb |-> verb, res |-> res, id |-> id, row |-> r, body |-> body, resp |-> resp,
     items |-> items]

\* the items a response carries: an error response or an exception carries none
ItemsOf(resp, list) == IF resp.exc = "none" /\ resp.status < 400 THEN list ELSE <<>>

Fault(resp) == IF resp = OK200 THEN 0 ELSE 1

\* the responses the remaining fault budget allows
Allowed(S) == IF faults < MaxFaults THEN S ELSE S \cap {OK200}

\* the process ends
Halted(how, code) ==
    /\ pc' = "halted"
    /\ halt' = how
    /\ exit_code' = code

Running(next) ==
    /\ pc' = next
    /\ UNCHANGED <<halt, exit_code>>

-----------------------------------------------------------------------------
(* Catalog resolver *)

\* ids of the remote objects
O1 == <<"o", "1">>
O2 == <<"o", "2">>

Org(id, name, longname) == [id |-> id, name |-> name, longname |-> longname]

\* a find_org that looks at the long names first
find_org_longname_first(orgs, name) ==
    LET by_name == SelectSeq(orgs, LAMBDA org : org.name = name)
        by_longname == SelectSeq(orgs, LAMBDA org : org.longname = name)
        org_found == IF by_longname # <<>> THEN by_longname ELSE by_name
    IN  IF org_found = <<>> THEN IntOne ELSE org_found[1].id

\* find_org, after the GET of orgs: the id of the organization, or the int 1
find_org(orgs, name) ==
    LET by_name == SelectSeq(orgs, LAMBDA org : org.name = name)
        by_longname == SelectSeq(orgs, LAMBDA org : org.longname = name)
        org_found == IF by_name # <<>> THEN by_name ELSE by_longname
    IN  IF org_found = <<>> THEN IntOne ELSE org_found[1].id

\* a find_sites that keeps the sites of every organization
find_sites_any_org(sites, id) == sites

\* find_sites, after the GET of sites
find_sites(sites, id) == SelectSeq(sites, LAMBDA site : site.org = id)

\* the organization lists the controller answers GET orgs with
OrgLists ==
    {<<Org(O2, "Other", "Acme"), Org(O1, "Acme", "Acme Corp")>>,
     <<Org(O2, "Other", "Other Inc")>>}

Digit == <<"1", "2", "3", "4", "5", "6", "7", "8", "9">>

\* the id the controller gives the i-th site
SiteId(i) == <<"s", Digit[i]>>

-----------------------------------------------------------------------------
(* Bulk delete: src/delete_sites/steelconnect_bulk_delete.py *)

SiteNames == {"DC-Sydney", "DC-Tokyo", "DC-Paris"}

\* the site lists the controller answers GET sites with: any names and
\* organizations, ids distinct
RemoteSiteLists ==
    {[i \in 1..Len(l) |-> [id |-> SiteId(i), name |-> l[i][1], org |-> l[i][2]]] :
        l \in SeqsUpTo(SiteNames \X {O1, O2}, MaxSites)}

\* a main that sets no site aside
main_delete_sites_all(sites) == sites

\* main: the loop that sets the protected site aside
main_delete_sites(sites) == SelectSeq(sites, LAMBDA site : ~(site.name = "DC-Sydney"))

\* what the operator may type at a prompt
Replies ==
    {<<"y">>, <<"Y">>, <<"n">>, <<"N">>, <<" ", "N">>, <<"n", "y">>,
     <<"y", "n">>, <<"x">>, <<" ">>, <<>>}

\* a yes_or_no that takes every recognized reply for a yes
yes_or_no_always_yes(input) ==
    LET reply == Strip(Lower(input))
    IN  IF reply = <<>> THEN "IndexError"
        ELSE IF reply[1] \in {"y", "n"} THEN "yes"
        ELSE "again"

\* yes_or_no, one reply: "yes" = return 1, "exit" = sys.exit(1), "again" = the
\* recursive call that asks again, "IndexError" = reply[0] on an empty reply
yes_or_no(input) ==
    LET reply == Strip(Lower(input))
    IN  IF reply = <<>> THEN "IndexError"
        ELSE IF reply[1] = "y" THEN "yes"
        ELSE IF reply[1] = "n" THEN "exit"
        ELSE "again"

InitDelete ==
    /\ tool = "delete"
    /\ pc = "find_org"
    /\ halt = "none"
    /\ exit_code = -1
    /\ organization = "Acme"
    /\ org_id = None
    /\ sites_csv = <<>>
    /\ row = 0
    /\ wans = NoWans
    /\ result = <<>>
    /\ site_id = None
    /\ zones = <<>>
    /\ internet_uplink_id = None
    /\ update_network_wan_id = None
    /\ remote_sites = <<>>
    /\ delete_sites = <<>>
    /\ prompt = 0
    /\ depth = 0
    /\ answers = <<>>
    /\ idx = 0
    /\ calls = <<>>
    /\ faults = 0
    /\ arg = None
    /\ ret = None

\* main: org_id = find_org(baseurl, auth, organization)
DelFindOrg ==
    /\ tool = "delete" /\ pc = "find_org"
    /\ \E resp \in Allowed(Responses), orgs \in OrgLists :
        /\ calls' = Append(calls, Call("GET", "orgs", None, 0, None, resp, ItemsOf(resp, orgs)))
        /\ faults' = faults + Fault(resp)
        /\ IF get(resp) = "items"
           THEN /\ org_id' = find_org(orgs, organization)
                /\ Running("find_sites")
           ELSE /\ Halted("sys.exit", 1)
                /\ UNCHANGED org_id
    /\ UNCHANGED <<tool, organization, importVars, deleteVars, pureVars>>

\* main: sites = find_sites(...), the loop over sites, and the choice between
\* remove_sites and 'Nothing to delete.'
DelFindSites ==
    /\ tool = "delete" /\ pc = "find_sites"
    /\ \E resp \in Allowed(Responses), items \in RemoteSiteLists :
        /\ calls' = Append(calls, Call("GET", "sites", None, 0, None, resp, ItemsOf(resp, items)))
        /\ faults' = faults + Fault(resp)
        /\ remote_sites' = items
        /\ IF get(resp) = "items"
           THEN LET sites == find_sites(items, org_id)
                    todo == main_delete_sites(sites)
                IN  /\ delete_sites' = todo
                    /\ IF todo # <<>>
                       THEN /\ prompt' = 1
                            /\ Running("yes_or_no")
                       ELSE /\ prompt' = prompt
                            /\ Halted("return", 0)
           ELSE /\ Halted("sys.exit", 1)
                /\ UNCHANGED <<delete_sites, prompt>>
    /\ UNCHANGED <<tool, organization, org_id, importVars, depth, answers, idx, pureVars>>

\* remove_sites: one reply of the operator to the yes_or_no call in progress
DelAnswer ==
    /\ tool = "delete" /\ pc = "yes_or_no"
    /\ Len(answers) < MaxAnswers
    /\ \E reply \in Replies :
        /\ answers' = Append(answers, [prompt |-> prompt, reply |-> reply])
        /\ LET r == yes_or_no(reply)
           IN  CASE r = "yes" ->
                      /\ depth' = 0
                      /\ IF prompt = 1
                         THEN /\ prompt' = 2
                              /\ idx' = idx
                              /\ Running("yes_or_no")
                         ELSE /\ prompt' = prompt
                              /\ idx' = 1
                              /\ Running("delete_site")
                 [] r = "exit" ->
                      /\ Halted("sys.exit", 1)
                      /\ UNCHANGED <<prompt, depth, idx>>
                 [] r = "again" ->
                      /\ depth' = depth + 1
                      /\ Running("yes_or_no")
                      /\ UNCHANGED <<prompt, idx>>
                 [] OTHER ->
                      /\ Halted(r, 1)
                      /\ UNCHANGED <<prompt, depth, idx>>
    /\ UNCHANGED <<tool, organization, org_id, importVars, remote_sites, delete_sites,
                   calls, faults, pureVars>>

\* delete_site: one turn of the loop over sites; after the last, 'All done!'
DelDeleteSite ==
    /\ tool = "delete" /\ pc = "delete_site"
    /\ \E resp \in Allowed(Responses) :
        /\ calls' = Append(calls,
                      Call("DELETE", "site", delete_sites[idx].id, 0, None, resp, <<>>))
        /\ faults' = faults + Fault(resp)
        /\ CASE send(resp) = "return" ->
                  /\ idx' = idx + 1
                  /\ IF idx < Len(delete_sites)
                     THEN Running("delete_site")
                     ELSE Halted("return", 0)
             [] send(resp) = "exit" ->
                  /\ Halted("sys.exit", 1)
                  /\ idx' = idx
             [] OTHER ->
                  /\ Halted("ValueError", 1)
                  /\ idx' = idx
    /\ UNCHANGED <<tool, organization, org_id, importVars, remote_sites, delete_sites,
                   prompt, depth, answers, pureVars>>

NextDelete == DelFindOrg \/ DelFindSites \/ DelAnswer \/ DelDeleteSite

SpecDelete == InitDelete /\ [][NextDelete]_vars

-----------------------------------------------------------------------------
(* Bulk import: src/steelconnect_bulk_import.py, data *)

dhcp == <<"d", "h", "c", "p">>
DHCP == <<"D", "H", "C", "P">>
Dhcp == <<"D", "h", "c", "p">>
Ip1 == <<"1", ".", "1">>
Gw1 == <<"1", ".", "9">>
Gw2 == <<"2", ".", "9">>
\* an address written with an upper-case letter
IpD == <<"D", ":", "1">>

\* a row of the CSV file, with the columns the workflow branches on; the other
\* columns are copied into payloads and are the same in every row
Row(internet_ip, wan_name, wan_ip) ==
    [name |-> "site", zone_name |-> "LAN", zone_ip |-> "10.0.0.0/24", vlan |-> "10",
     internet_ip |-> internet_ip, internet_gw |-> Gw1,
     wan_name |-> wan_name, wan_ip |-> wan_ip, wan_gw |-> Gw2]

\* the rows a CSV file is made of
Rows ==
    {Row(dhcp, "", <<>>), Row(Ip1, "", <<>>),
     Row(DHCP, "MPLS", Dhcp), Row(Ip1, "MPLS", IpD), Row(Ip1, "LTE", dhcp)}

\* WAN ids of the controller; the id of LTE contains the id of Internet
W1 == <<"w", "1">>
W2 == <<"w", "2">>
W3 == <<"w", "3">>
W10 == <<"w", "1", "0">>

WanItem(id, name) == [id |-> id, name |-> name]

\* the usual WANs of an organization: Internet, RouteVPN and one custom WAN
DefaultWans == <<WanItem(W1, "Internet"), WanItem(W2, "RouteVPN"), WanItem(W3, "MPLS")>>

\* the WAN lists the controller answers GET org/{org_id}/wans with
WanCatalogs ==
    {DefaultWans,
     <<WanItem(W3, "MPLS"), WanItem(W1, "Internet"), WanItem(W10, "LTE"),
       WanItem(W2, "RouteVPN")>>,
     <<WanItem(W1, "Internet"), WanItem(W2, "RouteVPN")>>,
     <<WanItem(W2, "RouteVPN"), WanItem(W3, "MPLS")>>}

ZoneId(i) == <<"z", Digit[i]>>
NetId(i) == <<"n", Digit[i]>>
UplinkId(i) == <<"u", Digit[i]>>
\* an uplink of the site on another WAN
OtherUplinkId(i) == <<"v", Digit[i]>>

\* the default zone of the i-th site with its network
DefaultZones(i) == <<[id |-> ZoneId(i), site |-> SiteId(i), networks |-> <<NetId(i)>>]>>

\* what the controller answers GET site/{site_id}/zones with
ZoneLists(i) ==
    {DefaultZones(i),
     <<[id |-> ZoneId(i), site |-> SiteId(i), networks |-> <<>>]>>,
     <<>>}

\* the Internet uplink of the i-th site
DefaultUplinks(i) == <<[id |-> UplinkId(i), wan |-> W1]>>

\* what the controller answers GET site/{site_id}/uplinks with
UplinkLists(i) ==
    {DefaultUplinks(i),
     <<[id |-> OtherUplinkId(i), wan |-> W10], [id |-> UplinkId(i), wan |-> W1]>>,
     <<[id |-> OtherUplinkId(i), wan |-> W3]>>,
     <<>>}

-----------------------------------------------------------------------------
(* Bulk import: the functions between the remote calls *)

\* a loop that keeps the first custom WAN
RECURSIVE find_wans_loop_keeps_first(_, _)
find_wans_loop_keeps_first(list, acc) ==
    IF list = <<>> THEN acc
    ELSE LET wan == Head(list)
             next == IF wan.name = "Internet" THEN [acc EXCEPT !.internet = wan.id]
                     ELSE IF wan.name = "RouteVPN" THEN [acc EXCEPT !.routevpn = wan.id]
                     ELSE IF acc.wan_id # Unbound THEN acc
                     ELSE [acc EXCEPT !.wan_id = wan.id, !.wan_name = wan.name]
         IN  find_wans_loop_keeps_first(Tail(list), next)

\* find_wans: the loop over the WANs
RECURSIVE find_wans_loop(_, _)
find_wans_loop(list, acc) ==
    IF list = <<>> THEN acc
    ELSE LET wan == Head(list)
             next == IF wan.name = "Internet" THEN [acc EXCEPT !.internet = wan.id]
                     ELSE IF wan.name = "RouteVPN" THEN [acc EXCEPT !.routevpn = wan.id]
                     ELSE [acc EXCEPT !.wan_id = wan.id, !.wan_name = wan.name]
         IN  find_wans_loop(Tail(list), next)

\* find_wans, after the GET: the Wan namedtuple
find_wans(list) == find_wans_loop(list, NoWans)

\* Wan(internet_id, routevpn_id, wan_id, wan_name) reads a local variable that
\* was never assigned: UnboundLocalError
find_wans_raises(w) ==
    w.internet = Unbound \/ w.routevpn = Unbound \/ w.wan_id = Unbound

\* find_uplink, after the GET: the id of the first uplink whose wan contains
\* the given id, None when the loop ends without a return
RECURSIVE find_uplink(_, _)
find_uplink(uplinks, wan) ==
    IF uplinks = <<>> THEN None
    ELSE IF IsSubstring(wan, Head(uplinks).wan) THEN Head(uplinks).id
    ELSE find_uplink(Tail(uplinks), wan)

\* a prep_payload without the dhcp branch
prep_payload_always_static(site, wan_id, wan_ip, wan_gw) ==
    [site |-> site, wan |-> wan_id, type |-> "static",
     static_ip_v4 |-> wan_ip, static_gw_v4 |-> wan_gw]

\* prep_payload
prep_payload(site, wan_id, wan_ip, wan_gw) ==
    IF wan_ip = dhcp
    THEN [site |-> site, wan |-> wan_id, type |-> "dhcpd",
          static_ip_v4 |-> None, static_gw_v4 |-> None]
    ELSE [site |-> site, wan |-> wan_id, type |-> "static",
          static_ip_v4 |-> wan_ip, static_gw_v4 |-> wan_gw]

\* add_sites: if (site['wan_name'] == wans.wan_name)
wan_name_matches(site, w) == site.wan_name = w.wan_name

\* the test without lower()
internet_is_static_case_sensitive(site) == site.internet_ip # dhcp

\* add_sites: if (site['internet_ip'].lower() != "dhcp")
internet_is_static(site) == Lower(site.internet_ip) # dhcp

\* an update_network that always attaches both WANs
network_wans_both(wan_id, routevpn) == <<wan_id, routevpn>>

\* update_network: wan_id = [wan_id, routevpn] if wan_id else [routevpn]
network_wans(wan_id, routevpn) ==
    IF Truthy(wan_id) THEN <<wan_id, routevpn>> ELSE <<routevpn>>

\* update_zones: the payload
zone_payload(z, zone_name, zone_vlan) ==
    [name |-> zone_name, site |-> z[1].site, tag |-> zone_vlan]

\* an update_network that puts the site id in the place of the zone id
network_payload_zone_is_site(z, zone_ip, routevpn, wan_id) ==
    [name |-> "Net", zone |-> z[1].site, site |-> z[1].site, netv4 |-> zone_ip,
     wans |-> network_wans(wan_id, routevpn)]

\* update_network: the payload
network_payload(z, zone_ip, routevpn, wan_id) ==
    [name |-> "Net", zone |-> z[1].id, site |-> z[1].site, netv4 |-> zone_ip,
     wans |-> network_wans(wan_id, routevpn)]

-----------------------------------------------------------------------------
(* Bulk import: main and add_sites *)

InitImport ==
    /\ tool = "import"
    /\ pc = "find_org"
    /\ halt = "none"
    /\ exit_code = -1
    /\ organization = "Acme"
    /\ org_id = None
    /\ sites_csv \in SeqsUpTo(Rows, MaxRows)
    /\ row = 0
    /\ wans = NoWans
    /\ result = <<>>
    /\ site_id = None
    /\ zones = <<>>
    /\ internet_uplink_id = None
    /\ update_network_wan_id = None
    /\ remote_sites = <<>>
    /\ delete_sites = <<>>
    /\ prompt = 0
    /\ depth = 0
    /\ answers = <<>>
    /\ idx = 0
    /\ calls = <<>>
    /\ faults = 0
    /\ arg = None
    /\ ret = None

\* the remote call is recorded
Issue(verb, res, id, body, resp, items) ==
    /\ calls' = Append(calls, Call(verb, res, id, row, body, resp, items))
    /\ faults' = faults + Fault(resp)

\* an add_sites whose return sits inside the loop: it ends after the first row
NextRow_returns_in_loop ==
    IF row < Len(sites_csv) /\ row < 1
    THEN /\ row' = row + 1
         /\ Running("site_post")
    ELSE /\ row' = row
         /\ Halted("return", 0)

\* the for loop of add_sites goes to its next row, or add_sites and main return
NextRow ==
    IF row < Len(sites_csv)
    THEN /\ row' = row + 1
         /\ Running("site_post")
    ELSE /\ row' = row
         /\ Halted("return", 0)

\* a send that did not return: sys.exit(1), or the exception out of the handler
SendEnds(resp) ==
    IF send(resp) = "exit" THEN Halted("sys.exit", 1) ELSE Halted("ValueError", 1)

\* an add_sites that adds the uplink for every row
AfterFindUplink_always_adds == "add_uplink"

\* where add_sites goes after find_uplink
AfterFindUplink ==
    IF wan_name_matches(sites_csv[row], wans) THEN "add_uplink"
    ELSE IF internet_is_static(sites_csv[row]) THEN "update_uplink"
    ELSE "update_zones"

\* an add_sites that never updates the Internet uplink after adding an uplink
AfterAddUplink_skips_update_uplink == "update_zones"

\* where add_sites goes after add_uplink
AfterAddUplink ==
    IF internet_is_static(sites_csv[row]) THEN "update_uplink" ELSE "update_zones"

\* main: org_id = find_org(baseurl, auth, organization)
ImpFindOrg ==
    /\ tool = "import" /\ pc = "find_org"
    /\ \E resp \in Allowed(Responses), orgs \in OrgLists :
        /\ Issue("GET", "orgs", None, None, resp, ItemsOf(resp, orgs))
        /\ IF get(resp) = "items"
           THEN /\ org_id' = find_org(orgs, organization)
                /\ Running("find_sites")
           ELSE /\ Halted("sys.exit", 1)
                /\ UNCHANGED org_id
    /\ UNCHANGED <<tool, organization, importVars, deleteVars, pureVars>>

\* main: sites = find_sites(baseurl, auth, organization, org_id); the sites
\* are only counted
ImpFindSites ==
    /\ tool = "import" /\ pc = "find_sites"
    /\ \E resp \in Allowed(Responses) :
        /\ Issue("GET", "sites", None, None, resp, <<>>)
        /\ IF get(resp) = "items"
           THEN Running("find_wans")
           ELSE Halted("sys.exit", 1)
    /\ UNCHANGED <<tool, organization, org_id, importVars, deleteVars, pureVars>>

\* main: wans = find_wans(baseurl, auth, org_id), then the start of add_sites
ImpFindWans ==
    /\ tool = "import" /\ pc = "find_wans"
    /\ IF ~IsStr(org_id)
       THEN \* baseurl + 'org/' + org_id: str + int
            /\ Halted("TypeError", 1)
            /\ UNCHANGED <<wans, row, calls, faults>>
       ELSE \E resp \in Allowed(Responses) :
            \E list \in (IF resp = OK200 /\ faults < MaxFaults THEN WanCatalogs
                         ELSE {DefaultWans}) :
            /\ calls' = Append(calls, Call("GET", "org_wans", org_id, row, None, resp,
                                           ItemsOf(resp, list)))
            /\ faults' = faults + (IF list = DefaultWans THEN Fault(resp) ELSE 1)
            /\ IF get(resp) = "items"
               THEN IF find_wans_raises(find_wans(list))
                    THEN /\ Halted("UnboundLocalError", 1)
                         /\ UNCHANGED <<wans, row>>
                    ELSE /\ wans' = find_wans(list)
                         /\ NextRow
               ELSE /\ Halted("sys.exit", 1)
                    /\ UNCHANGED <<wans, row>>
    /\ UNCHANGED <<tool, organization, org_id, sites_csv, result, site_id, zones,
                   internet_uplink_id, update_network_wan_id, deleteVars, pureVars>>

\* an add_sites that goes on with the row whatever the status code
site_was_added_any_status(response) == TRUE

\* add_sites: if (response.status_code == 200)
site_was_added(response) == response.status = 200

\* add_sites: the site POST of a row and the test of its status code
ImpSitePost ==
    /\ tool = "import" /\ pc = "site_post"
    /\ \E resp \in Allowed(Responses) :
        /\ Issue("POST", "org_sites", org_id,
                 [org |-> org_id, name |-> sites_csv[row].name], resp, <<>>)
        /\ IF send(resp) = "return"
           THEN IF site_was_added(resp)
                THEN /\ result' = Append(result, SiteId(row))
                     /\ site_id' = SiteId(row)
                     /\ update_network_wan_id' = None
                     /\ row' = row
                     /\ Running("find_zones")
                ELSE /\ NextRow
                     /\ UNCHANGED <<result, site_id, update_network_wan_id>>
           ELSE /\ SendEnds(resp)
                /\ UNCHANGED <<result, site_id, update_network_wan_id, row>>
    /\ UNCHANGED <<tool, organization, org_id, sites_csv, wans, zones,
                   internet_uplink_id, deleteVars, pureVars>>

\* add_sites: zones = find_zones(baseurl, auth, site_id, result)
ImpFindZones ==
    /\ tool = "import" /\ pc = "find_zones"
    /\ \E resp \in Allowed(Responses) :
       \E list \in (IF resp = OK200 /\ faults < MaxFaults THEN ZoneLists(row)
                    ELSE {DefaultZones(row)}) :
        /\ calls' = Append(calls, Call("GET", "site_zones", site_id, row, None, resp,
                                       ItemsOf(resp, list)))
        /\ faults' = faults + (IF list = DefaultZones(row) THEN Fault(resp) ELSE 1)
        /\ IF get(resp) = "items"
           THEN /\ zones' = list
                /\ Running("find_uplink")
           ELSE /\ Halted("sys.exit", 1)
                /\ UNCHANGED zones
    /\ UNCHANGED <<tool, organization, org_id, sites_csv, row, wans, result, site_id,
                   internet_uplink_id, update_network_wan_id, deleteVars, pureVars>>

\* add_sites: internet_uplink_id = find_uplink(baseurl, auth, site_id, wans.internet)
ImpFindUplink ==
    /\ tool = "import" /\ pc = "find_uplink"
    /\ \E resp \in Allowed(Responses) :
       \E list \in (IF resp = OK200 /\ faults < MaxFaults THEN UplinkLists(row)
                    ELSE {DefaultUplinks(row)}) :
        /\ calls' = Append(calls, Call("GET", "site_uplinks", site_id, row, None, resp,
                                       ItemsOf(resp, list)))
        /\ faults' = faults + (IF list = DefaultUplinks(row) THEN Fault(resp) ELSE 1)
        /\ IF get(resp) = "items"
           THEN /\ internet_uplink_id' = find_uplink(list, wans.internet)
                /\ Running(AfterFindUplink)
           ELSE /\ Halted("sys.exit", 1)
                /\ UNCHANGED internet_uplink_id
    /\ UNCHANGED <<tool, organization, org_id, sites_csv, row, wans, result, site_id,
                   zones, update_network_wan_id, deleteVars, pureVars>>

\* add_sites: add_uplink(...) and update_network_wan_id = wans.wan_id
ImpAddUplink ==
    /\ tool = "import" /\ pc = "add_uplink"
    /\ \E resp \in Allowed(Responses) :
        /\ Issue("POST", "org_uplinks", org_id,
                 prep_payload(site_id, wans.wan_id, Lower(sites_csv[row].wan_ip),
                              sites_csv[row].wan_gw), resp, <<>>)
        /\ IF send(resp) = "return"
           THEN /\ update_network_wan_id' = wans.wan_id
                /\ Running(AfterAddUplink)
           ELSE /\ SendEnds(resp)
                /\ UNCHANGED update_network_wan_id
    /\ UNCHANGED <<tool, organization, org_id, sites_csv, row, wans, result, site_id,
                   zones, internet_uplink_id, deleteVars, pureVars>>

\* add_sites: update_uplink(...)
ImpUpdateUplink ==
    /\ tool = "import" /\ pc = "update_uplink"
    /\ IF ~IsStr(internet_uplink_id)
       THEN \* baseurl + 'uplink/' + uplink_id: str + None
            /\ Halted("TypeError", 1)
            /\ UNCHANGED <<calls, faults>>
       ELSE \E resp \in Allowed(Responses) :
            /\ Issue("PUT", "uplink", internet_uplink_id,
                     prep_payload(site_id, wans.internet,
                                  Lower(sites_csv[row].internet_ip),
                                  sites_csv[row].internet_gw), resp, <<>>)
            /\ IF send(resp) = "return"
               THEN Running("update_zones")
               ELSE SendEnds(resp)
    /\ UNCHANGED <<tool, organization, org_id, importVars, deleteVars, pureVars>>

\* add_sites: update_zones(baseurl, auth, zones, site['zone_name'], site['vlan'])
ImpUpdateZones ==
    /\ tool = "import" /\ pc = "update_zones"
    /\ IF zones = <<>>
       THEN \* zones[0]
            /\ Halted("IndexError", 1)
            /\ UNCHANGED <<calls, faults>>
       ELSE \E resp \in Allowed(Responses) :
            /\ Issue("PUT", "zone", zones[1].id,
                     zone_payload(zones, sites_csv[row].zone_name, sites_csv[row].vlan),
                     resp, <<>>)
            /\ IF send(resp) = "return"
               THEN Running("update_network")
               ELSE SendEnds(resp)
    /\ UNCHANGED <<tool, organization, org_id, importVars, deleteVars, pureVars>>

\* add_sites: update_network(...), the last call of the row
ImpUpdateNetwork ==
    /\ tool = "import" /\ pc = "update_network"
    /\ IF zones[1].networks = <<>>
       THEN \* zones[0]['networks'][0]
            /\ Halted("IndexError", 1)
            /\ UNCHANGED <<calls, faults, row>>
       ELSE \E resp \in Allowed(Responses) :
            /\ Issue("PUT", "network", zones[1].networks[1],
                     network_payload(zones, sites_csv[row].zone_ip, wans.routevpn,
                                     update_network_wan_id), resp, <<>>)
            /\ IF send(resp) = "return"
               THEN NextRow
               ELSE /\ SendEnds(resp)
                    /\ row' = row
    /\ UNCHANGED <<tool, organization, org_id, sites_csv, wans, result, site_id, zones,
                   internet_uplink_id, update_network_wan_id, deleteVars, pureVars>>

NextImport ==
    \/ ImpFindOrg \/ ImpFindSites \/ ImpFindWans \/ ImpSitePost \/ ImpFindZones
    \/ ImpFindUplink \/ ImpAddUplink \/ ImpUpdateUplink \/ ImpUpdateZones
    \/ ImpUpdateNetwork

SpecImport == InitImport /\ [][NextImport]_vars

-----------------------------------------------------------------------------
(* The catalog functions on their own, over every list up to a length *)

\* organizations with every combination of two names and two long names, the
\* id given by the place in the list
PureOrgLists ==
    {[i \in 1..Len(l) |-> Org(<<"o", Digit[i]>>, l[i][1], l[i][2])] :
        l \in SeqsUpTo({"Acme", "Other"} \X {"Acme", "Other"}, MaxLen)}

\* WANs: the two reserved names, a second entry named Internet, two custom WANs
PureWanItems ==
    {WanItem(W1, "Internet"), WanItem(<<"w", "4">>, "Internet"),
     WanItem(W2, "RouteVPN"), WanItem(W3, "MPLS"), WanItem(W10, "LTE")}

PureWanLists == SeqsUpTo(PureWanItems, MaxLen + 1)

InitPure ==
    /\ tool = "pure"
    /\ \/ /\ pc = "find_org"
          /\ \E orgs \in PureOrgLists, name \in {"Acme", "Nobody"} :
                arg = [fn |-> "find_org", orgs |-> orgs, name |-> name]
       \/ /\ pc = "find_wans"
          /\ \E list \in PureWanLists : arg = [fn |-> "find_wans", list |-> list]
    /\ ret = None
    /\ halt = "none"
    /\ exit_code = -1
    /\ organization = "Acme"
    /\ org_id = None
    /\ sites_csv = <<>>
    /\ row = 0
    /\ wans = NoWans
    /\ result = <<>>
    /\ site_id = None
    /\ zones = <<>>
    /\ internet_uplink_id = None
    /\ update_network_wan_id = None
    /\ remote_sites = <<>>
    /\ delete_sites = <<>>
    /\ prompt = 0
    /\ depth = 0
    /\ answers = <<>>
    /\ idx = 0
    /\ calls = <<>>
    /\ faults = 0

\* find_org on the organizations of arg
PureFindOrg ==
    /\ tool = "pure" /\ pc = "find_org"
    /\ ret' = find_org(arg.orgs, arg.name)
    /\ Running("returned")
    /\ UNCHANGED <<tool, organization, org_id, importVars, deleteVars, calls, faults, arg>>

\* find_wans on the WANs of arg
PureFindWans ==
    /\ tool = "pure" /\ pc = "find_wans"
    /\ ret' = find_wans(arg.list)
    /\ IF find_wans_raises(find_wans(arg.list))
       THEN Halted("UnboundLocalError", 1)
       ELSE Running("returned")
    /\ UNCHANGED <<tool, organization, org_id, importVars, deleteVars, calls, faults, arg>>

NextPure == PureFindOrg \/ PureFindWans

SpecPure == InitPure /\ [][NextPure]_vars

-----------------------------------------------------------------------------
(* Both tools: a run of the import tool or of the delete tool *)

InitTools == InitImport \/ InitDelete

NextTools == NextImport \/ NextDelete

SpecTools == InitTools /\ [][NextTools]_vars

-----------------------------------------------------------------------------
(* Catalog resolver: properties *)

Min(S) == CHOOSE x \in S : \A y \in S : x <= y
Max(S) == CHOOSE x \in S : \A y \in S : x >= y

NameMatches == {i \in 1..Len(arg.orgs) : arg.orgs[i].name = arg.name}
LongnameMatches == {i \in 1..Len(arg.orgs) : arg.orgs[i].longname = arg.name}

\* C6: when no organization has the given name as its name or long name,
\* find_org fails explicitly: the caller never goes on with the value 1 in the
\* place of an organization id.
C6_FindOrgFailsExplicitly == ~(org_id = IntOne /\ pc # "halted")

\* C7: find_org returns the id of the first organization, in the order of the
\* list, whose name equals the given name; only when no name matches, the id of
\* the first organization whose longname equals it.
C7_NameBeforeLongname ==
    (tool = "pure" /\ pc = "returned" /\ arg.fn = "find_org") =>
        /\ NameMatches # {} => ret = arg.orgs[Min(NameMatches)].id
        /\ (NameMatches = {} /\ LongnameMatches # {}) =>
              ret = arg.orgs[Min(LongnameMatches)].id

\* a list in which an organization matching by long name comes before the
\* first one matching by name, and the latter is returned
C7_Witness ==
    /\ tool = "pure" /\ pc = "returned" /\ arg.fn = "find_org"
    /\ NameMatches # {} /\ LongnameMatches # {}
    /\ Min(LongnameMatches) < Min(NameMatches)
    /\ ret = arg.orgs[Min(NameMatches)].id

CustomWans ==
    {i \in 1..Len(arg.list) : arg.list[i].name \notin {"Internet", "RouteVPN"}}

\* C8: for a WAN list with two or more WANs named neither Internet nor
\* RouteVPN, find_wans keeps as wan_id and wan_name the id and name of the last
\* of them in the order of the list; when the Wan tuple is returned, its
\* internet and routevpn are the ids of entries named Internet and RouteVPN.
C8_LastCustomWanKept ==
    (tool = "pure" /\ arg.fn = "find_wans" /\ pc # "find_wans"
       /\ Cardinality(CustomWans) >= 2) =>
        /\ ret.wan_id = arg.list[Max(CustomWans)].id
        /\ ret.wan_name = arg.list[Max(CustomWans)].name
        /\ pc = "returned" =>
            /\ \E i \in 1..Len(arg.list) :
                arg.list[i].name = "Internet" /\ arg.list[i].id = ret.internet
            /\ \E i \in 1..Len(arg.list) :
                arg.list[i].name = "RouteVPN" /\ arg.list[i].id = ret.routevpn

\* Internet, RouteVPN and two different custom WANs: the second is kept
C8_Witness ==
    /\ tool = "pure" /\ arg.fn = "find_wans" /\ pc = "returned"
    /\ Cardinality(CustomWans) = 2
    /\ arg.list[Min(CustomWans)].name # arg.list[Max(CustomWans)].name
    /\ ret.wan_name = arg.list[Max(CustomWans)].name

-----------------------------------------------------------------------------
(* Bulk import: properties *)

CallsOf(verb, res) == {i \in 1..Len(calls) : calls[i].verb = verb /\ calls[i].res = res}

\* the calls of one kind issued while the given row was processed
RowCalls(verb, res, r) ==
    {i \in 1..Len(calls) : calls[i].row = r /\ calls[i].verb = verb /\ calls[i].res = res}

\* the text is dhcp in any mix of upper and lower case
IsDhcpAnyCase(text) ==
    /\ Len(text) = 4
    /\ text[1] \in {"d", "D"} /\ text[2] \in {"h", "H"}
    /\ text[3] \in {"c", "C"} /\ text[4] \in {"p", "P"}

\* the for loop is done with the row
RowDone(r) == r < row \/ (r = row /\ halt = "return")

\* the site POST of the row was answered with HTTP 200
SiteCreated(r) == \E i \in RowCalls("POST", "org_sites", r) : calls[i].resp = OK200

\* C3: no PUT to uplink/{id} is ever issued while a row is processed whose
\* internet_ip is dhcp in any letter case.
C3_NoUplinkPutForDhcpRow ==
    \A i \in CallsOf("PUT", "uplink") : ~IsDhcpAnyCase(sites_csv[calls[i].row].internet_ip)

\* a row with an internet_ip spelled DHCP is done, its site was created, and
\* no uplink PUT was issued for it
C3_Witness ==
    \E r \in 1..Len(sites_csv) :
        /\ IsDhcpAnyCase(sites_csv[r].internet_ip) /\ sites_csv[r].internet_ip # dhcp
        /\ RowDone(r) /\ SiteCreated(r)
        /\ RowCalls("PUT", "network", r) # {}
        /\ RowCalls("PUT", "uplink", r) = {}

\* C4: for a row whose site was created and whose wan_name equals the named
\* WAN of the catalog, every network PUT of the row carries wans =
\* [named WAN id, RouteVPN id] and comes after exactly one POST to
\* org/{org_id}/uplinks that names the row's site and the named WAN; for a row
\* whose wan_name differs, no uplink POST is ever issued and every network PUT
\* carries wans = [RouteVPN id].  A created row that the loop is done with
\* has exactly one network PUT.
C4_NamedWanBranch ==
    \A r \in 1..Len(sites_csv) :
        LET posts == RowCalls("POST", "org_uplinks", r)
            puts == RowCalls("PUT", "network", r)
        IN  /\ (posts # {} \/ puts # {}) => SiteCreated(r)
            /\ IF sites_csv[r].wan_name = wans.wan_name
               THEN /\ Cardinality(posts) <= 1
                    /\ \A i \in posts :
                        /\ calls[i].id = org_id
                        /\ calls[i].body.wan = wans.wan_id
                        /\ calls[i].body.site = SiteId(r)
                    /\ \A i \in puts :
                        /\ calls[i].body.wans = <<wans.wan_id, wans.routevpn>>
                        /\ \E j \in posts : j < i
               ELSE /\ posts = {}
                    /\ \A i \in puts : calls[i].body.wans = <<wans.routevpn>>
            /\ (SiteCreated(r) /\ RowDone(r)) => Cardinality(puts) = 1

\* a run with both branches: a row with the named WAN and a row
\* without, both created and done
C4_Witness ==
    /\ halt = "return"
    /\ \E r1, r2 \in 1..Len(sites_csv) :
        /\ SiteCreated(r1) /\ SiteCreated(r2)
        /\ sites_csv[r1].wan_name = wans.wan_name
        /\ sites_csv[r2].wan_name # wans.wan_name
        /\ \E i \in RowCalls("PUT", "network", r1) : Len(calls[i].body.wans) = 2
        /\ \E i \in RowCalls("PUT", "network", r2) : Len(calls[i].body.wans) = 1

\* the writes of the history, in the order they were issued
RECURSIVE Writes(_)
Writes(log) ==
    IF log = <<>> THEN <<>>
    ELSE (IF Head(log).verb = "GET" THEN <<>> ELSE <<[verb |-> Head(log).verb,
                                                       res |-> Head(log).res]>>)
           \o Writes(Tail(log))

AllCallsSucceeded == \A i \in 1..Len(calls) : calls[i].resp = OK200

\* C5: a run over a single row whose internet_ip is dhcp (in any case) and
\* whose wan_name is not the named WAN, in which every call was answered with
\* HTTP 200 and which came to its end, has issued exactly these writes: the
\* site POST, the zone PUT and the network PUT, the last with wans =
\* [RouteVPN id]; no uplink POST and no uplink PUT.
C5_DhcpRowWithoutNamedWan ==
    ( /\ tool = "import" /\ halt = "return"
      /\ Len(sites_csv) = 1
      /\ IsDhcpAnyCase(sites_csv[1].internet_ip)
      /\ sites_csv[1].wan_name # wans.wan_name
      /\ AllCallsSucceeded )
    => /\ Writes(calls) = <<[verb |-> "POST", res |-> "org_sites"],
                            [verb |-> "PUT", res |-> "zone"],
                            [verb |-> "PUT", res |-> "network"]>>
       /\ calls[Len(calls)].body.wans = <<wans.routevpn>>

\* the run of the scenario: internet_ip = dhcp, wan_name empty
C5_Witness ==
    /\ tool = "import" /\ halt = "return"
    /\ Len(sites_csv) = 1
    /\ sites_csv[1].internet_ip = dhcp /\ sites_csv[1].wan_name = ""
    /\ AllCallsSucceeded
    /\ Len(Writes(calls)) = 3

\* the GET did not succeed: no response, or a status outside 200..299
GetFailed(resp) == resp.exc # "none" \/ resp.status < 200 \/ resp.status > 299

\* C9: a GET that ends in a connection failure, another transport exception
\* or a status outside 2xx is the last call of the run, and the process has
\* ended by sys.exit(1); after a GET answered with HTTP 200 the process has not
\* ended in get, and the caller holds the items of the response body.  This
\* covers the GETs of orgs, sites and WANs and the GETs of zones and uplinks
\* inside a row.
C9_FailedGetIsFatal ==
    \A i \in 1..Len(calls) :
        calls[i].verb = "GET" =>
            /\ GetFailed(calls[i].resp) =>
                /\ i = Len(calls)
                /\ pc = "halted" /\ halt = "sys.exit" /\ exit_code = 1
            /\ (calls[i].resp = OK200 /\ i = Len(calls)) =>
                /\ halt # "sys.exit"
                /\ calls[i].res = "site_zones" => zones = calls[i].items
                /\ calls[i].res = "orgs" =>
                      \/ org_id = IntOne
                      \/ \E k \in 1..Len(calls[i].items) : calls[i].items[k].id = org_id

\* the GET of the zones or uplinks of the second row's site fails
C9_Witness ==
    /\ tool = "import" /\ row = 2 /\ calls # <<>>
    /\ calls[Len(calls)].res \in {"site_zones", "site_uplinks"}
    /\ RaisesHTTPError(calls[Len(calls)].resp)
    /\ exit_code = 1

\* C10: a write (POST, PUT, DELETE) answered with an HTTP error status never
\* ends the process: no run ends in send with such a response as its last call.
C10_WriteErrorNeverAborts ==
    \A i \in 1..Len(calls) :
        (calls[i].verb # "GET" /\ RaisesHTTPError(calls[i].resp)) =>
            ~(i = Len(calls) /\ pc = "halted" /\ halt \in {"sys.exit", "ValueError"})

\* the calls issued while the given row was processed
AllRowCalls(r) == {i \in 1..Len(calls) : calls[i].row = r}

\* the site POST of the row came back from send with a status other than 200
SiteRefused(r) ==
    \E i \in RowCalls("POST", "org_sites", r) :
        calls[i].resp # OK200 /\ send(calls[i].resp) = "return"

\* C11 as stated: when the site POST of a row does not succeed with HTTP 200,
\* the steps from the zone fetch onward are still attempted for that row, and
\* the rows after it are still processed.
C11_FailedSiteStillProvisioned ==
    \A r \in 1..Len(sites_csv) :
        (SiteRefused(r) /\ RowDone(r)) =>
            /\ RowCalls("GET", "site_zones", r) # {}
            /\ r < Len(sites_csv) =>
                  (RowCalls("POST", "org_sites", r + 1) # {} \/ pc = "site_post")

\* C11, amended: when the site POST of a row comes back from send with a
\* status other than 200, that POST is the only call of the row (no zone
\* fetch, no uplink lookup, no uplink call, no zone PUT, no network PUT), and
\* the loop goes on: the next row's site POST is the next call, or the run
\* ends normally when the row was the last.
C11_RefusedSiteSkipsRestOfRow ==
    \A r \in 1..Len(sites_csv) :
        \A i \in RowCalls("POST", "org_sites", r) :
            (calls[i].resp # OK200 /\ send(calls[i].resp) = "return") =>
                /\ AllRowCalls(r) = {i}
                /\ IF r < Len(sites_csv)
                   THEN IF i = Len(calls)
                        THEN row = r + 1 /\ pc = "site_post"
                        ELSE calls[i + 1].res = "org_sites" /\ calls[i + 1].row = r + 1
                   ELSE i = Len(calls) /\ pc = "halted" /\ halt = "return"

\* the first row's site is refused with 201 or 404, the second row is created
\* and provisioned to its network PUT
C11_Witness ==
    /\ tool = "import" /\ halt = "return" /\ Len(sites_csv) = 2
    /\ SiteRefused(1) /\ AllRowCalls(1) = RowCalls("POST", "org_sites", 1)
    /\ SiteCreated(2) /\ RowCalls("PUT", "network", 2) # {}

\* the calls of a row, in the order they were issued
RowLog(log, r) == SelectSeq(log, LAMBDA c : c.row = r)

\* the calls the procedure prescribes for a row whose site was created
RowPlan(r) ==
    <<<<"POST", "org_sites">>, <<"GET", "site_zones">>, <<"GET", "site_uplinks">>>>
    \o (IF sites_csv[r].wan_name = wans.wan_name
        THEN <<<<"POST", "org_uplinks">>>> ELSE <<>>)
    \o (IF IsDhcpAnyCase(sites_csv[r].internet_ip)
        THEN <<>> ELSE <<<<"PUT", "uplink">>>>)
    \o <<<<"PUT", "zone">>, <<"PUT", "network">>>>

\* the calls are the first calls of the plan, kind by kind
FollowsPlan(log, plan) ==
    /\ Len(log) <= Len(plan)
    /\ \A k \in 1..Len(log) : log[k].verb = plan[k][1] /\ log[k].res = plan[k][2]

\* the call came back to its caller
Returned(c) == IF c.verb = "GET" THEN get(c.resp) = "items" ELSE send(c.resp) = "return"

\* C12: the calls of a row whose site was created are, in every state, the
\* first calls of this list, in this order: site POST, zones GET, uplinks GET,
\* the uplink POST only if wan_name matches, the uplink PUT only if
\* internet_ip is not dhcp, the zone PUT, the network PUT; a row the loop is
\* done with has issued the whole list; and every call but the latest one of
\* the run has returned before the next one was issued.
C12_RowCallsInOrder ==
    /\ \A r \in 1..Len(sites_csv) :
        SiteCreated(r) =>
            /\ FollowsPlan(RowLog(calls, r), RowPlan(r))
            /\ RowDone(r) => Len(RowLog(calls, r)) = Len(RowPlan(r))
    /\ \A i \in 1..(Len(calls) - 1) : Returned(calls[i])

\* a row with the named WAN and a static internet_ip has issued all seven calls
C12_Witness ==
    \E r \in 1..Len(sites_csv) :
        /\ SiteCreated(r) /\ RowDone(r)
        /\ Len(RowPlan(r)) = 7
        /\ Len(RowLog(calls, r)) = 7
        /\ RowLog(calls, r)[4].res = "org_uplinks" /\ RowLog(calls, r)[5].res = "uplink"

\* the ids of the objects of the r-th row's site
RowIds(r) == {SiteId(r), ZoneId(r), NetId(r), UplinkId(r), OtherUplinkId(r)}

\* the call names an object of the r-th row's site in its URL or its payload
References(c, r) ==
    \/ c.id \in RowIds(r)
    \/ c.res \in {"org_uplinks", "uplink", "zone", "network"} /\ c.body.site = SiteId(r)
    \/ c.res = "network" /\ c.body.zone = ZoneId(r)

\* C13: in every state of an import run the calls follow the rows in input
\* order; no row has more than one site POST, uplink POST, uplink PUT, zone
\* PUT or network PUT; no call issued from the next row's site POST on names
\* the site, zone, network or uplink of an earlier row; and a run that came to
\* its normal end has issued exactly one site POST for every row.
C13_OncePerRowNeverRevisited ==
    tool = "import" =>
        /\ \A i \in 1..(Len(calls) - 1) : calls[i].row <= calls[i + 1].row
        /\ \A i \in 1..Len(calls) :
              calls[i].verb # "GET" =>
                  \A j \in 1..(i - 1) :
                      ~(calls[j].row = calls[i].row /\ calls[j].verb = calls[i].verb
                          /\ calls[j].res = calls[i].res)
        /\ \A r \in 1..Len(sites_csv) :
            /\ \A i \in RowCalls("POST", "org_sites", r) :
                  \A j \in i..Len(calls) : \A q \in 1..(r - 1) : ~References(calls[j], q)
            /\ halt = "return" => Cardinality(RowCalls("POST", "org_sites", r)) = 1

\* a finished run over two rows, every call answered with 200, both rows with
\* their zone and network updated
C13_Witness ==
    /\ tool = "import" /\ halt = "return" /\ Len(sites_csv) = 2 /\ AllCallsSucceeded
    /\ \A r \in 1..2 : /\ Cardinality(RowCalls("POST", "org_sites", r)) = 1
                       /\ \E i \in RowCalls("PUT", "network", r) : References(calls[i], r)

\* the process is past the r-th row, or has ended in it
RowOver(r) == RowDone(r) \/ (r = row /\ pc = "halted")

\* C14: for every row whose site was created and whose internet_ip is not dhcp
\* in any letter case, once the row is over and no call of the run has failed,
\* exactly one PUT has been issued to uplink/{id}, id being the id of an uplink
\* the lookup was answered with, with type static, static_ip_v4 the lower-cased
\* internet_ip and static_gw_v4 the internet_gw; also when the lookup found no
\* uplink on the Internet WAN.
C14_StaticInternetUplinkPut ==
    \A r \in 1..Len(sites_csv) :
        ( /\ SiteCreated(r) /\ ~IsDhcpAnyCase(sites_csv[r].internet_ip)
          /\ RowOver(r)
          /\ \A i \in 1..Len(calls) : Returned(calls[i]) )
        => LET puts == RowCalls("PUT", "uplink", r)
           IN  /\ Cardinality(puts) = 1
               /\ \A i \in puts :
                   /\ calls[i].body.type = "static"
                   /\ calls[i].body.static_ip_v4 = Lower(sites_csv[r].internet_ip)
                   /\ calls[i].body.static_gw_v4 = sites_csv[r].internet_gw
                   /\ \A j \in RowCalls("GET", "site_uplinks", r) :
                         \E k \in 1..Len(calls[j].items) :
                             calls[j].items[k].id = calls[i].id

\* C15: every POST to org/{org_id}/uplinks carries the row's site id and the
\* id of the named WAN; its type is dhcpd with static_ip_v4 and static_gw_v4
\* null when the row's wan_ip is dhcp in any letter case, and otherwise static
\* with static_ip_v4 the lower-cased wan_ip and static_gw_v4 the row's wan_gw.
C15_NamedWanUplinkPayload ==
    \A i \in CallsOf("POST", "org_uplinks") :
        LET site == sites_csv[calls[i].row]
            body == calls[i].body
        IN  /\ body.site = SiteId(calls[i].row)
            /\ body.wan = wans.wan_id
            /\ IF IsDhcpAnyCase(site.wan_ip)
               THEN /\ body.type = "dhcpd"
                    /\ body.static_ip_v4 = None /\ body.static_gw_v4 = None
               ELSE /\ body.type = "static"
                    /\ body.static_ip_v4 = Lower(site.wan_ip)
                    /\ body.static_gw_v4 = site.wan_gw

\* one run with both payloads: a row with wan_ip Dhcp gets a dhcpd uplink, a
\* row with wan_ip D:1 a static uplink with the address d:1
C15_Witness ==
    \E i, j \in CallsOf("POST", "org_uplinks") :
        /\ sites_csv[calls[i].row].wan_ip = Dhcp
        /\ calls[i].body.type = "dhcpd"
        /\ sites_csv[calls[j].row].wan_ip = IpD
        /\ calls[j].body.type = "static"
        /\ calls[j].body.static_ip_v4 = <<"d", ":", "1">>
        /\ calls[j].body.static_gw_v4 = Gw2

\* the WAN list has Internet and RouteVPN and no other WAN
NoCustomWan(list) ==
    /\ \E k \in 1..Len(list) : list[k].name = "Internet"
    /\ \E k \in 1..Len(list) : list[k].name = "RouteVPN"
    /\ \A k \in 1..Len(list) : list[k].name \in {"Internet", "RouteVPN"}

\* C17: when GET org/{org_id}/wans is answered with Internet and RouteVPN and
\* no custom WAN, find_wans returns (the run goes on to the rows or, without
\* rows, to its normal end), no uplink POST is issued, every network PUT
\* carries wans = [RouteVPN id], and at the normal end every created row has
\* its network PUT.
C17_CatalogWithoutCustomWanAccepted ==
    \A i \in CallsOf("GET", "org_wans") :
        (calls[i].resp = OK200 /\ NoCustomWan(calls[i].items)) =>
            /\ halt # "UnboundLocalError"
            /\ i = Len(calls) => (pc = "site_post" \/ halt = "return")
            /\ CallsOf("POST", "org_uplinks") = {}
            /\ \A j \in CallsOf("PUT", "network") :
                  \E k \in 1..Len(calls[i].items) :
                      /\ calls[i].items[k].name = "RouteVPN"
                      /\ calls[j].body.wans = <<calls[i].items[k].id>>
            /\ halt = "return" =>
                  \A r \in 1..Len(sites_csv) :
                      SiteCreated(r) => RowCalls("PUT", "network", r) # {}

\* C18: the id find_uplink resolved for the site of the current row is the id
\* of an uplink of that site whose wan is the Internet WAN id of the catalog,
\* never the id of an uplink on another WAN.
C18_ResolvedUplinkIsOnInternetWan ==
    \A i \in CallsOf("GET", "site_uplinks") :
        (i = Len(calls) /\ calls[i].resp = OK200 /\ IsStr(internet_uplink_id)) =>
            \E k \in 1..Len(calls[i].items) :
                /\ calls[i].items[k].id = internet_uplink_id
                /\ calls[i].items[k].wan = wans.internet

\* the zone lists the controller answered the GETs of the r-th row's zones with
ZonesFetched(r) ==
    {calls[k].items : k \in {k \in 1..Len(calls) :
        /\ calls[k].row = r /\ calls[k].res = "site_zones"
        /\ calls[k].resp = OK200 /\ calls[k].id = SiteId(r)}}

\* C20: every uplink POST, uplink PUT, zone PUT and network PUT belongs to a
\* row whose own site POST was answered with 200 and carries that row's site
\* id; the zone PUT goes to the first zone fetched for that site, the network
\* PUT to the first network of that zone and names that zone.  No such call
\* carries an undefined site id or an id of another row's objects, also when
\* the site of an earlier row was refused.
C20_CallsCarryOwnRowIds ==
    \A i \in 1..Len(calls) :
        calls[i].res \in {"org_uplinks", "uplink", "zone", "network"} =>
            LET r == calls[i].row
                zs == ZonesFetched(r)
            IN  /\ r \in 1..Len(sites_csv) /\ SiteCreated(r)
                /\ calls[i].body.site = SiteId(r)
                /\ \A q \in 1..Len(sites_csv) : q # r => ~References(calls[i], q)
                /\ calls[i].res = "zone" =>
                      \E z \in zs : z # <<>> /\ calls[i].id = z[1].id
                /\ calls[i].res = "network" =>
                      \E z \in zs :
                          /\ z # <<>> /\ z[1].networks # <<>>
                          /\ calls[i].id = z[1].networks[1]
                          /\ calls[i].body.zone = z[1].id

\* the first row's site is refused; the second row is created and issues all
\* four calls with the ids of the second site
C20_Witness ==
    /\ Len(sites_csv) = 2 /\ SiteRefused(1) /\ SiteCreated(2) /\ halt = "return"
    /\ \A res \in {"org_uplinks", "uplink", "zone", "network"} :
          \E i \in 1..Len(calls) :
              calls[i].res = res /\ calls[i].row = 2 /\ calls[i].body.site = SiteId(2)

-----------------------------------------------------------------------------
(* Bulk delete: properties *)

DeleteCalls == {i \in 1..Len(calls) : calls[i].verb = "DELETE"}

\* number of DELETE calls issued for the site with this id
DeleteCount(id) == Cardinality({i \in DeleteCalls : calls[i].id = id})

\* the reply starts with the given letter, in either case
StartsWith(reply, letters) == reply # <<>> /\ reply[1] \in letters

\* the operator answered y at the given prompt
AnsweredYes(p) ==
    \E i \in 1..Len(answers) :
        answers[i].prompt = p /\ StartsWith(answers[i].reply, {"y", "Y"})

IsTarget(site) == site.org = org_id /\ site.name # "DC-Sydney"

\* C1: in every state of a run of the delete tool, no DELETE has been issued
\* for a site named DC-Sydney or for a site outside the resolved organization,
\* no site has been deleted twice and every DELETE names a site of the
\* controller; and when the operator answered y at both prompts and the run
\* came to its end ('All done!'), exactly one DELETE has been issued for every
\* site of the resolved organization that is not named DC-Sydney.
C1_DeletesExactlyUnprotected ==
    tool = "delete" =>
        /\ \A i \in 1..Len(remote_sites) :
            LET site == remote_sites[i]
            IN  /\ site.name = "DC-Sydney" => DeleteCount(site.id) = 0
                /\ ~IsTarget(site) => DeleteCount(site.id) = 0
                /\ DeleteCount(site.id) <= 1
                /\ (AnsweredYes(1) /\ AnsweredYes(2) /\ halt = "return" /\ IsTarget(site))
                      => DeleteCount(site.id) = 1
        /\ \A i \in DeleteCalls :
            /\ calls[i].res = "site"
            /\ \E j \in 1..Len(remote_sites) : remote_sites[j].id = calls[i].id

\* a finished run over an organization with DC-Sydney and two more sites:
\* two DELETE calls
C1_Witness ==
    /\ tool = "delete" /\ halt = "return"
    /\ AnsweredYes(1) /\ AnsweredYes(2)
    /\ Len(remote_sites) = 3
    /\ \A j \in 1..3 : remote_sites[j].org = org_id
    /\ \E j \in 1..3 : remote_sites[j].name = "DC-Sydney"
    /\ Cardinality(DeleteCalls) = 2

\* C2: an answer that starts with n or N, at either prompt and also when the
\* question is asked again, is the last answer of the run: the process has
\* ended by sys.exit(1), and no DELETE has been issued in any state in which
\* such an answer is on record.
C2_NoEndsRunWithoutDelete ==
    \A i \in 1..Len(answers) :
        StartsWith(answers[i].reply, {"n", "N"}) =>
            /\ i = Len(answers)
            /\ pc = "halted" /\ halt = "sys.exit" /\ exit_code = 1
            /\ DeleteCalls = {}

\* a no at the second prompt, after a yes at the first and one unrecognized reply
C2_Witness ==
    /\ Len(answers) = 3
    /\ answers[1].prompt = 1 /\ StartsWith(answers[1].reply, {"y", "Y"})
    /\ answers[2].prompt = 2 /\ answers[2].reply = <<"x">>
    /\ answers[3].prompt = 2 /\ answers[3].reply = <<"N">>
    /\ pc = "halted"

\* the reply as yes_or_no looks at it, from the properties' side: lower case,
\* blanks taken off both ends
Normal(reply) == Strip(Lower(reply))

Affirms(reply) == Normal(reply) # <<>> /\ Normal(reply)[1] = "y"
Refuses(reply) == Normal(reply) # <<>> /\ Normal(reply)[1] = "n"

\* every DELETE comes after a y at the first prompt and a later y at the second
DeleteOnlyAfterTwoYes ==
    DeleteCalls # {} =>
        \E i, j \in 1..Len(answers) :
            /\ i < j
            /\ answers[i].prompt = 1 /\ Affirms(answers[i].reply)
            /\ answers[j].prompt = 2 /\ Affirms(answers[j].reply)

\* an answer that starts with neither y nor n is followed by the same prompt
\* asked again, and by nothing else
UnrecognizedOnlyReprompts ==
    \A i \in 1..Len(answers) :
        (~Affirms(answers[i].reply) /\ ~Refuses(answers[i].reply)) =>
            IF i = Len(answers)
            THEN pc = "yes_or_no" /\ prompt = answers[i].prompt /\ DeleteCalls = {}
            ELSE answers[i + 1].prompt = answers[i].prompt

\* without a site to delete the operator is asked nothing and nothing is deleted
NothingToDeleteNoPrompt ==
    (pc \notin {"find_org", "find_sites"}
       /\ \A j \in 1..Len(remote_sites) : ~IsTarget(remote_sites[j])) =>
        prompt = 0 /\ answers = <<>> /\ DeleteCalls = {}

\* C16: in the delete tool the first DELETE is issued only after two prompts
\* have each been answered with y, the first before the second; an answer that
\* starts with neither y nor n only causes the prompt to be asked again and
\* never leads to a DELETE; and when no site other than DC-Sydney remains,
\* there is no prompt and no DELETE.
C16_TwoConfirmationsBeforeDelete ==
    tool = "delete" =>
        /\ DeleteOnlyAfterTwoYes
        /\ UnrecognizedOnlyReprompts
        /\ NothingToDeleteNoPrompt

-----------------------------------------------------------------------------
(* Both tools: properties *)

\* C19: in every state in which find_org has handed back its not-found value,
\* every call of the run is a GET: the import tool has issued no POST and no
\* PUT, the delete tool no DELETE, whatever the sites of the controller and
\* the answers of the operator.
C19_OrgNotFoundNoWrites ==
    org_id = IntOne => \A i \in 1..Len(calls) : calls[i].verb = "GET"

\* the import tool ended at find_wans with the organization not found and a
\* file with rows
C19_WitnessImport ==
    /\ tool = "import" /\ org_id = IntOne /\ pc = "halted"
    /\ Len(sites_csv) = MaxRows
    /\ calls # <<>> /\ calls[Len(calls)].res = "sites"

\* the delete tool came to 'Nothing to delete.' with the organization not
\* found while the controller has sites other than DC-Sydney
C19_Witness ==
    /\ tool = "delete" /\ org_id = IntOne /\ halt = "return"
    /\ \E j \in 1..Len(remote_sites) : remote_sites[j].name # "DC-Sydney"
    /\ answers = <<>> /\ DeleteCalls = {}

=============================================================================
